---- MODULE Spec2Model ----
(***************************************************************************)
(* Model of src/src/main.cpp: an Arduino MKR WiFi 1010 sketch that keeps   *)
(* a WiFi + MQTT session to an IoT hub alive, receives textual commands on *)
(* the device-bound topic, hands them to the zone lighting controller and  *)
(* publishes a reply on the events topic.                                  *)
(*                                                                         *)
(* Bytes are integers 0..255, C strings are sequences of bytes.  The       *)
(* Arduino libraries (WiFi, MqttClient, ECCX08) are the environment: each  *)
(* call is modelled at its call site by the contract the sketch relies on. *)
(***************************************************************************)
EXTENDS Integers, Sequences, FiniteSets, TLC

\* ---------------------------------------------------------------- bounds
MaxMsgs  == 2   \* inbound messages the broker delivers in one run
MaxFails == 1   \* connect attempts that fail although the peer is reachable
MaxDrops == 1   \* external drops of a layer in one run
MaxJunk  == 1   \* non-zero bytes that may follow mqtt_buffer in memory

\* ------------------------------------------------------ program constants
max_mqtt_buffer_len == 256

\* command strings as ASCII bytes: "Zone1" .. "Zone4", "Zone12" and "Zone"
Zone1 == <<90, 111, 110, 101, 49>>
Zone2 == <<90, 111, 110, 101, 50>>
Zone3 == <<90, 111, 110, 101, 51>>
Zone4 == <<90, 111, 110, 101, 52>>
Zone12 == <<90, 111, 110, 101, 49, 50>>
ZonePrefix == <<90, 111, 110, 101>>

\* inbound payloads the broker may send: empty, a known command, an unknown
\* longer one, an unknown shorter one, a payload with an embedded zero byte, a payload of exactly
\* the buffer capacity without any zero byte, and an oversized payload
EmptyPayload == << >>
ZeroPayload  == <<90, 0, 49>>
FullPayload  == [i \in 1..max_mqtt_buffer_len |-> 65]
OverPayload  == [i \in 1..(max_mqtt_buffer_len + 1) |-> 66]
Payloads == {EmptyPayload, Zone1, Zone12, ZonePrefix, ZeroPayload, FullPayload,
             OverPayload}

\* what may lie in memory right behind mqtt_buffer: k non-zero bytes, then a 0
JunkChoices == {[i \in 1..k |-> 33] : k \in 0..MaxJunk}

Min(a, b) == IF a < b THEN a ELSE b

\* ------------------------------------------------------- C string helpers
\* number of bytes of s before the first zero byte among s[1..maxlen], or
\* maxlen when there is none
ScanZero(s, maxlen) ==
  LET zeros == {j \in 1..maxlen : s[j] = 0}
  IN IF zeros = {} THEN maxlen
     ELSE (CHOOSE j \in zeros : \A k \in zeros : j <= k) - 1

\* strnlen(mqtt_buffer, max_mqtt_buffer_len)
strnlen(s, maxlen) == ScanZero(s, Min(maxlen, Len(s)))

\* std::string(mqtt_buffer, n): the first n bytes, zero bytes included
StdString(s, n) == SubSeq(s, 1, n)

\* Print::print(const char*): the bytes from the start of the buffer up to the
\* first zero byte; a buffer without zero byte is read past its end, into
\* whatever memory follows it (junk, ended by a zero byte)
PrintCStr(buf, junk) ==
  LET mem == buf \o junk IN SubSeq(mem, 1, ScanZero(mem, Len(mem)))

\* the highest place (counted from 1 at the start of the buffer) that
\* Print::print(const char*) reads: the terminator it stops at
PrintReach(buf, junk) ==
  LET mem == buf \o junk IN ScanZero(mem, Len(mem)) + 1

\* the highest place that strnlen(s, maxlen) reads: the terminator, or the
\* last of the maxlen places
StrnlenReach(s, maxlen) == Min(strnlen(s, maxlen) + 1, maxlen)

Max(a, b) == IF a > b THEN a ELSE b

\* ------------------------------------------------------ Command Router
KnownCommands == {Zone1, Zone2, Zone3, Zone4}

\* ZoneLightingController::HighlightZone: exact match against the table
HighlightZone(cmd) == cmd \in KnownCommands

\* --------------------------------------------------- onMessageReceived
\* variant of IsEmpty: the test for an empty message is missing
IsEmptyMut(buffer_len) == FALSE
\* line 110: if(buffer_len == 0)
IsEmpty(buffer_len) == buffer_len = 0

\* variant of TooBig: the limit is off by one
TooBigMut(buffer_len) == buffer_len > max_mqtt_buffer_len + 1
\* line 116: if(buffer_len > max_mqtt_buffer_len)
TooBig(buffer_len) == buffer_len > max_mqtt_buffer_len

\* mqttClient.flush(): discards what is left of the current message; the
\* result is the number of bytes of the message still in the channel
flush(remaining) == 0

\* variant of read: the last byte of the message is not copied
readMut(buf, payload, buffer_len) ==
  SubSeq(payload, 1, buffer_len - 1) \o SubSeq(buf, buffer_len, Len(buf))
\* mqttClient.read((uint8_t*)mqtt_buffer, buffer_len): overwrites the first
\* buffer_len bytes of the buffer, leaves the others as they were
read(buf, payload, buffer_len) ==
  SubSeq(payload, 1, buffer_len) \o SubSeq(buf, buffer_len + 1, Len(buf))

EventsTopic == "devices/{deviceId}/messages/events/"

\* the message sent by beginMessage(topic), the four mqttClient.print calls
\* and endMessage()
ReplyText(printed, understood) ==
  [topic |-> EventsTopic,
   text  |-> << "the command string <", printed, "> was ",
                IF understood THEN "processed successfully"
                              ELSE "processed unsuccessfully" >>]

\* the whole handler, as a function of the buffer, the payload waiting in the
\* client and the memory behind the buffer.  Result: the buffer afterwards,
\* the bytes of the message left in the channel, the command strings handed
\* to HighlightZone (in call order), the replies published, the "did not
\* equate" diagnostics printed, and the highest place of the buffer read
onMessageReceived(buf, payload, junk) ==
  LET buffer_len == Len(payload)            \* mqttClient.available()
      none == [buffer |-> buf, available |-> buffer_len, routed |-> << >>,
               replies |-> << >>, diag |-> << >>, readTo |-> 0]
  IN IF IsEmpty(buffer_len) THEN none
     ELSE IF TooBig(buffer_len)
       THEN [none EXCEPT !.available = flush(buffer_len)]
     ELSE
       LET nb      == read(buf, payload, buffer_len)
           printed == PrintCStr(nb, junk)
           cmd     == StdString(nb, strnlen(nb, max_mqtt_buffer_len))
           the_message_was_understood_and_acted_on == HighlightZone(cmd)
           cmd2    == StdString(nb, strnlen(nb, max_mqtt_buffer_len))
       IN [buffer    |-> nb,
           available |-> buffer_len - Min(buffer_len, Len(payload)),
           routed    |-> <<cmd, cmd2>>,
           replies   |-> << ReplyText(printed,
                              the_message_was_understood_and_acted_on) >>,
           diag      |-> IF HighlightZone(cmd2) THEN <<printed>> ELSE << >>,
           readTo    |-> Max(PrintReach(nb, junk),
                             StrnlenReach(nb, max_mqtt_buffer_len))]

\* ------------------------------------------------------------------ state
VARIABLES
  pc,          \* where the sketch is: setup, halted, or a place in loop()
  initReturned,\* what lightingController.Initialize() has just returned
  eccPresent,  \* whether ECCX08.begin() finds the crypto element
  wifiUp,      \* network layer: WiFi.status() == WL_CONNECTED
  mqttUp,      \* messaging layer: mqttClient.connected()
  subscribed,  \* the broker holds the session's devicebound subscription
  fails,       \* failing WiFi.begin / mqttClient.connect attempts to come
  drops,       \* external drops still to come
  msgsLeft,    \* inbound messages the broker will still send
  mqtt_buffer, \* char mqtt_buffer[max_mqtt_buffer_len]
  published,   \* number of messages published since boot
  last,        \* history: the most recent run of onMessageReceived
  tick,        \* history: what the current pass through loop() has done
  sessSub,     \* history: subscribe was issued since the last successful connect
  ops          \* history: library operations performed since boot

vars == << pc, initReturned, eccPresent, wifiUp, mqttUp, subscribed, fails, drops,
           msgsLeft, mqtt_buffer, published, last, tick, sessSub, ops >>

bootVars == << initReturned, eccPresent >>
envVars  == << bootVars, fails, drops, msgsLeft >>
linkVars == << wifiUp, mqttUp, subscribed >>
msgVars  == << mqtt_buffer, published, last >>

NoMessage == [seen |-> FALSE]
NewTick == [wifiWasUp |-> FALSE, mqttWasUp |-> FALSE, wifiBegin |-> FALSE,
            mqttConnect |-> FALSE, connected |-> 0, subscribes |-> 0,
            expired |-> FALSE]

Init ==
  /\ pc = "setup"
  /\ initReturned = "none"
  /\ eccPresent \in BOOLEAN
  /\ wifiUp = FALSE
  /\ mqttUp = FALSE
  /\ subscribed = FALSE
  /\ fails = MaxFails
  /\ drops = MaxDrops
  /\ msgsLeft = MaxMsgs
  /\ mqtt_buffer = [i \in 1..max_mqtt_buffer_len |-> 0]
  /\ published = 0
  /\ last = NoMessage
  /\ tick = NewTick
  /\ sessSub = FALSE
  /\ ops = {}

\* ------------------------------------------------------------------ setup
\* outcomes of ZoneLightingController::Initialize()
InitializeResults == {"ok", "failed"}

\* setup(), lines 148-153: the initial delay, the serial port (taken to
\* open), and the call of lightingController.Initialize()
Initialize ==
  /\ pc = "setup"
  /\ initReturned' \in InitializeResults
  /\ pc' = "setup_ecc"
  /\ UNCHANGED << eccPresent, fails, drops, msgsLeft, linkVars, msgVars, tick,
                  sessSub, ops >>

\* variant of setup: the while(1) after "No ECCX08 present!" is missing
setupMut ==
  /\ pc = "setup_ecc"
  /\ pc' = "wifi_check"
  /\ initReturned' = "none"
  /\ UNCHANGED << eccPresent, fails, drops, msgsLeft, linkVars, msgVars, tick,
                  sessSub, ops >>
\* setup(), lines 155-192: the value Initialize() returned is not looked at;
\* without the crypto element the sketch spins in while(1), lines 155-158;
\* otherwise it configures the clients, returns, and loop() starts
setup ==
  /\ pc = "setup_ecc"
  /\ pc' = IF eccPresent THEN "wifi_check" ELSE "halted"
  /\ initReturned' = "none"
  /\ UNCHANGED << eccPresent, fails, drops, msgsLeft, linkVars, msgVars, tick,
                  sessSub, ops >>

\* ------------------------------------------------------------------- loop
\* loop(), line 195: if (WiFi.status() != WL_CONNECTED) connectWiFi();
WifiCheck ==
  /\ pc = "wifi_check"
  /\ tick' = [NewTick EXCEPT !.wifiWasUp = wifiUp]
  /\ pc' = IF wifiUp THEN "mqtt_check" ELSE "wifi_begin"
  /\ UNCHANGED << envVars, linkVars, msgVars, sessSub, ops >>

\* connectWiFi(), line 60: one WiFi.begin attempt
WifiBegin ==
  /\ pc = "wifi_begin"
  /\ tick' = [tick EXCEPT !.wifiBegin = TRUE]
  /\ ops' = ops \cup {"WiFi.begin"}
  /\ \/ /\ wifiUp' = TRUE
        /\ pc' = "mqtt_check"
        /\ UNCHANGED fails
     \/ /\ fails > 0
        /\ fails' = fails - 1
        /\ wifiUp' = FALSE
        /\ pc' = "wifi_delay"
  /\ UNCHANGED << bootVars, drops, msgsLeft, mqttUp, subscribed, msgVars,
                  sessSub >>

\* connectWiFi(), line 63: delay(5000) after a failed attempt
WifiDelay ==
  /\ pc = "wifi_delay"
  /\ pc' = "wifi_begin"
  /\ UNCHANGED << envVars, linkVars, msgVars, tick, sessSub, ops >>

\* variant of MqttCheck: a connected session is subscribed again
MqttCheckResub ==
  /\ pc = "mqtt_check"
  /\ tick' = [tick EXCEPT !.mqttWasUp = mqttUp]
  /\ pc' = IF mqttUp THEN "subscribe" ELSE "mqtt_connect"
  /\ UNCHANGED << envVars, linkVars, msgVars, sessSub, ops >>
\* variant of MqttCheck: connectMQTT is called whatever connected() says
MqttCheckAlways ==
  /\ pc = "mqtt_check"
  /\ tick' = [tick EXCEPT !.mqttWasUp = mqttUp]
  /\ pc' = "mqtt_connect"
  /\ UNCHANGED << envVars, linkVars, msgVars, sessSub, ops >>
\* loop(), line 199: if (!mqttClient.connected()) connectMQTT();
MqttCheck ==
  /\ pc = "mqtt_check"
  /\ tick' = [tick EXCEPT !.mqttWasUp = mqttUp]
  /\ pc' = IF mqttUp THEN "poll" ELSE "mqtt_connect"
  /\ UNCHANGED << envVars, linkVars, msgVars, sessSub, ops >>

\* the effect of one mqttClient.connect(broker, 8883) attempt, line 76: it
\* opens a new socket and can only succeed while the network layer is up;
\* next is where connectMQTT goes on after a success
ConnectAttempt(next) ==
  /\ ops' = ops \cup {"connect"}
  /\ subscribed' = FALSE
  /\ \/ /\ wifiUp
        /\ mqttUp' = TRUE
        /\ sessSub' = FALSE
        /\ pc' = next
        /\ UNCHANGED fails
     \/ /\ wifiUp => fails > 0
        /\ fails' = IF wifiUp THEN fails - 1 ELSE fails
        /\ mqttUp' = FALSE
        /\ pc' = "mqtt_delay"
        /\ UNCHANGED sessSub
  /\ tick' = [tick EXCEPT !.mqttConnect = TRUE,
                          !.connected = IF mqttUp' THEN Min(@ + 1, 2) ELSE @]
  /\ UNCHANGED << bootVars, drops, msgsLeft, wifiUp, msgVars >>

\* variant of MqttConnect: connectMQTT returns without subscribing
MqttConnectNoSub ==
  /\ pc = "mqtt_connect"
  /\ ConnectAttempt("poll")
\* connectMQTT(), lines 76-88: after a successful connect comes the subscribe
MqttConnect ==
  /\ pc = "mqtt_connect"
  /\ ConnectAttempt("subscribe")

\* variant of MqttDelay: connectMQTT gives up after the delay
MqttDelayGiveUp ==
  /\ pc = "mqtt_delay"
  /\ pc' = "poll"
  /\ UNCHANGED << envVars, linkVars, msgVars, tick, sessSub, ops >>
\* connectMQTT(), line 80: delay(5000) after a failed attempt
MqttDelay ==
  /\ pc = "mqtt_delay"
  /\ pc' = "mqtt_connect"
  /\ UNCHANGED << envVars, linkVars, msgVars, tick, sessSub, ops >>

\* connectMQTT(), line 88: mqttClient.subscribe(...), result not looked at
Subscribe ==
  /\ pc = "subscribe"
  /\ tick' = [tick EXCEPT !.subscribes = Min(@ + 1, 2)]
  /\ ops' = ops \cup {"subscribe"}
  /\ sessSub' = TRUE
  /\ \E acked \in BOOLEAN : subscribed' = (mqttUp /\ (acked \/ subscribed))
  /\ pc' = "poll"
  /\ UNCHANGED << envVars, wifiUp, mqttUp, msgVars >>

\* loop(), line 205: mqttClient.poll() reads a complete device-bound message
\* from the open session and calls the handler registered in setup(), line
\* 191; it goes on polling afterwards
Dispatch ==
  /\ pc = "poll"
  /\ mqttUp /\ msgsLeft > 0
  /\ msgsLeft' = msgsLeft - 1
  /\ \E payload \in Payloads, junk \in JunkChoices :
       LET r == onMessageReceived(mqtt_buffer, payload, junk) IN
       /\ mqtt_buffer' = r.buffer
       /\ published' = published + Len(r.replies)
       /\ last' = [seen |-> TRUE, payload |-> payload,
                   before |-> mqtt_buffer, available |-> r.available,
                   routed |-> r.routed, replies |-> r.replies,
                   diag |-> r.diag, readTo |-> r.readTo, sub |-> sessSub,
                   reconnected |-> (tick.connected = 1 /\ drops < MaxDrops)]
       /\ ops' = ops \cup {"poll", "dispatch"}
                     \cup (IF r.replies # << >> THEN {"publish"} ELSE {})
  /\ UNCHANGED << pc, bootVars, fails, drops, linkVars, tick, sessSub >>

\* loop(), line 205: mqttClient.poll() returns once nothing is pending
PollDone ==
  /\ pc = "poll"
  /\ ops' = ops \cup {"poll"}
  /\ pc' = "timer"
  /\ UNCHANGED << envVars, linkVars, msgVars, tick, sessSub >>

\* loop(), lines 208-218: the 5 second interval; its body only sets
\* lastMillis (the call of publishMessage is commented out).  loop() returns
\* and is called again; tick.expired tells the next pass that the interval
\* had expired in this one
Timer ==
  /\ pc = "timer"
  /\ \E expired \in BOOLEAN :       \* millis() - lastMillis > 5000
       tick' = [NewTick EXCEPT !.expired = expired]
  /\ pc' = "wifi_check"
  /\ UNCHANGED << envVars, linkVars, msgVars, sessSub, ops >>

\* ------------------------------------------------------------ environment
Running == pc \notin {"setup", "setup_ecc", "halted"}

\* the access point goes away; the TCP connection under the session dies too
WifiDrop ==
  /\ Running /\ wifiUp /\ drops > 0
  /\ drops' = drops - 1
  /\ wifiUp' = FALSE
  /\ mqttUp' = FALSE
  /\ subscribed' = FALSE
  /\ UNCHANGED << pc, bootVars, fails, msgsLeft, msgVars, tick, sessSub,
                  ops >>

\* the broker or the TLS link closes the session; the network stays up
MqttDrop ==
  /\ mqttUp /\ drops > 0
  /\ drops' = drops - 1
  /\ mqttUp' = FALSE
  /\ subscribed' = FALSE
  /\ UNCHANGED << pc, bootVars, fails, msgsLeft, wifiUp, msgVars, tick,
                  sessSub, ops >>

\* ---------------------------------------------------------- specification
Device ==
  \/ Initialize
  \/ setup
  \/ WifiCheck
  \/ WifiBegin
  \/ WifiDelay
  \/ MqttCheck
  \/ MqttConnect
  \/ MqttDelay
  \/ Subscribe
  \/ Dispatch
  \/ PollDone
  \/ Timer

Environment ==
  \/ WifiDrop
  \/ MqttDrop

Next == Device \/ Environment

Spec == Init /\ [][Next]_vars

\* the sketch is the only thread of the board: it always takes its next step
FairSpec == Spec /\ WF_vars(Device)

\* ------------------------------------------------------------- properties
TypeOK ==
  /\ initReturned \in {"none"} \cup InitializeResults
  /\ pc \in {"setup", "setup_ecc", "halted", "wifi_check", "wifi_begin",
             "wifi_delay",
             "mqtt_check", "mqtt_connect", "mqtt_delay", "subscribe",
             "poll", "timer"}
  /\ Len(mqtt_buffer) = max_mqtt_buffer_len
  /\ published <= MaxMsgs
  /\ mqttUp => wifiUp
  /\ subscribed => mqttUp

\* the most recent message had 0 < L <= capacity
Processed ==
  /\ last.seen
  /\ Len(last.payload) > 0
  /\ Len(last.payload) <= max_mqtt_buffer_len

\* the most recent message had L > capacity
Oversized == last.seen /\ Len(last.payload) > max_mqtt_buffer_len

\* the most recent invocation of the handler found L = 0
EmptySeen == last.seen /\ Len(last.payload) = 0

\* C1: a message with 0 < L <= capacity puts exactly its L bytes into the
\* first L places of the buffer, leaves the other places as they were, and
\* publishes exactly one reply on the events topic, whatever came before
C1_CopyAndOneReply ==
  Processed =>
    /\ Len(mqtt_buffer) = max_mqtt_buffer_len
    /\ SubSeq(mqtt_buffer, 1, Len(last.payload)) = last.payload
    /\ SubSeq(mqtt_buffer, Len(last.payload) + 1, max_mqtt_buffer_len)
         = SubSeq(last.before, Len(last.payload) + 1, max_mqtt_buffer_len)
    /\ last.available = 0
    /\ Len(last.replies) = 1
    /\ last.replies[1].topic = EventsTopic

\* C1 witness: a payload of exactly the capacity was processed after an
\* earlier message had been processed and answered
C1_Witness ==
  /\ Processed
  /\ last.payload = FullPayload
  /\ published = 2

\* C2 (as claimed): the reply to a processed message quotes exactly the L
\* bytes of that message between "<" and ">"
C2_ReplyQuotesPayload ==
  Processed =>
    /\ Len(last.replies) = 1
    /\ last.replies[1].text[1] = "the command string <"
    /\ last.replies[1].text[2] = last.payload
    /\ last.replies[1].text[3] = "> was "
    /\ last.replies[1].text[4] \in {"processed successfully",
                                    "processed unsuccessfully"}

\* C3 (as claimed): HighlightZone is called exactly once for a processed
\* message
C3_RouterCalledOnce == Processed => Len(last.routed) = 1

\* C4: a message with L > capacity leaves the buffer as it was, leaves no
\* byte of itself in the channel, reaches no HighlightZone call and
\* publishes nothing
C4_OversizedDropped ==
  Oversized =>
    /\ mqtt_buffer = last.before
    /\ last.available = 0
    /\ last.routed = << >>
    /\ last.replies = << >>

\* C4 witness: an oversized message arrived while the buffer held an earlier
\* command
C4_Witness ==
  /\ Oversized
  /\ published = 1
  /\ mqtt_buffer[1] # 0

\* C5: a handler invocation that finds L = 0 leaves the buffer as it was,
\* calls HighlightZone never and publishes nothing
C5_EmptyIsNoOp ==
  EmptySeen =>
    /\ mqtt_buffer = last.before
    /\ last.routed = << >>
    /\ last.replies = << >>
    /\ last.diag = << >>

\* C5 witness: an empty message arrived while the buffer held an earlier
\* command
C5_Witness ==
  /\ EmptySeen
  /\ published = 1
  /\ mqtt_buffer[1] # 0

FullyConnected == wifiUp /\ mqttUp /\ subscribed

\* C6 (as claimed): with the crypto element present, finitely many failing
\* attempts and finitely many drops, the sketch eventually polls with the
\* network up, the session up and the subscription in place
C6_EventuallyConnected ==
  eccPresent => <>(pc = "poll" /\ FullyConnected)

\* C7: when a pass through loop() reaches the poll, it has issued as many
\* subscribes as it had successful connects (at most one), and a pass that
\* found the session connected issues none
C7_OneSubscribePerConnect ==
  /\ tick.connected <= 1
  /\ tick.subscribes <= tick.connected
  /\ pc \in {"poll", "timer"} => tick.subscribes = tick.connected
  /\ tick.mqttWasUp => tick.subscribes = 0

\* C7 witness: the poll is reached after a reconnect that followed a drop
C7_Witness ==
  /\ pc = "poll"
  /\ drops < MaxDrops
  /\ tick.connected = 1
  /\ tick.subscribes = 1

\* C8: a pass through loop() that found both layers connected performs no
\* WiFi.begin, no connect and no subscribe, and is at the poll or behind it
C8_IdempotentWhenConnected ==
  (tick.wifiWasUp /\ tick.mqttWasUp) =>
    /\ ~tick.wifiBegin
    /\ ~tick.mqttConnect
    /\ tick.subscribes = 0
    /\ pc \in {"poll", "timer"}

\* C8 witness: a pass found both layers connected and reached the poll
C8_Witness ==
  /\ pc = "poll"
  /\ tick.wifiWasUp
  /\ tick.mqttWasUp
  /\ "subscribe" \in ops

\* C9: whenever a message is dispatched to the handler, the subscribe of the
\* most recently established session has been issued
C9_DispatchAfterSubscribe ==
  last.seen => (last.sub /\ {"connect", "subscribe"} \subseteq ops)

\* C9 witness: a message was dispatched in a pass that had to reconnect
\* after a drop
C9_Witness ==
  /\ last.seen
  /\ last.reconnected
  /\ last.sub

\* C10: without the crypto element the sketch never leaves setup() except
\* into the halt, and performs no network operation at all
C10_HaltWithoutEcc ==
  ~eccPresent =>
    /\ pc \in {"setup", "setup_ecc", "halted"}
    /\ ops = {}
    /\ ~wifiUp /\ ~mqttUp /\ ~subscribed
    /\ published = 0
    /\ ~last.seen

\* C10 witness: the sketch is halted
C10_Witness == ~eccPresent /\ pc = "halted"

\* C11 (as claimed): with the crypto element present the sketch reaches
\* loop() and starts a new pass through it again and again, forever
C11_TicksForever ==
  eccPresent => []<>(pc = "wifi_check")

\* the verdict text of the reply to the most recent message
Verdict == last.replies[1].text[4]

\* C12 (as claimed): a processed message gets exactly one reply, its verdict
\* is "processed successfully" exactly if the HighlightZone call for the
\* message returned true, and a payload that is no known command gets the
\* negative verdict
C12_VerdictMatchesRouter ==
  Processed =>
    /\ Len(last.replies) = 1
    /\ (Verdict = "processed successfully") <=> HighlightZone(last.routed[1])
    /\ Verdict \in {"processed successfully", "processed unsuccessfully"}
    /\ last.payload \notin KnownCommands =>
         Verdict = "processed unsuccessfully"

\* C13 (as claimed): an expiry of the 5 second interval while the session is
\* up publishes one message
C13_ExpiryPublishes ==
  [][(pc = "timer" /\ mqttUp /\ tick'.expired) => published' = published + 1]_vars

\* C14 (as claimed): boot goes on into loop() only if Initialize() succeeded
C14_InitializeMustSucceed ==
  [][(pc = "setup_ecc" /\ initReturned = "failed") => pc' # "wifi_check"]_vars

\* C15 (as claimed): every string handed to HighlightZone for a processed
\* message is exactly the L bytes of that message
C15_RouterGetsPayload ==
  Processed => \A i \in 1..Len(last.routed) : last.routed[i] = last.payload

\* C16 (as claimed): while a message is processed, no place behind the end
\* of mqtt_buffer is read
C16_ReadsInsideBuffer ==
  last.seen => last.readTo <= max_mqtt_buffer_len

\* C20 (as claimed): the "did not equate to any known operation" diagnostic
\* is printed only for a message whose reply says "processed unsuccessfully"
C20_DiagnosticOnlyWhenNotUnderstood ==
  (Processed /\ last.diag # << >>) => Verdict = "processed unsuccessfully"

\* C17 (as claimed): whenever the sketch is at the poll with the session up,
\* the broker holds the subscription to the device-bound topic
C17_PollingMeansSubscribed ==
  (pc = "poll" /\ mqttUp) => subscribed

\* C18 (as claimed): every mqttClient.connect attempt is made with the
\* network layer connected
C18_ConnectOnlyWithNetwork ==
  [][(pc = "mqtt_connect" /\ pc' # pc) => wifiUp]_vars

\* C19: a WiFi.begin or mqttClient.connect attempt either succeeds, and only
\* then does connectWiFi or connectMQTT go on, or it fails and is followed by
\* the delay; the delay is followed by the next attempt of the same layer;
\* the halt is entered from setup() only, without the crypto element
C19_RetryWithBackoff ==
  [][/\ (pc = "wifi_begin" /\ pc' # pc) =>
          \/ wifiUp' /\ pc' = "mqtt_check"
          \/ ~wifiUp' /\ pc' = "wifi_delay"
     /\ (pc = "wifi_delay" /\ pc' # pc) => pc' = "wifi_begin"
     /\ (pc = "mqtt_connect" /\ pc' # pc) =>
          \/ mqttUp' /\ pc' = "subscribe"
          \/ ~mqttUp' /\ pc' = "mqtt_delay"
     /\ (pc = "mqtt_delay" /\ pc' # pc) => pc' = "mqtt_connect"
     /\ (pc' = "halted" /\ pc # "halted") => (pc = "setup_ecc" /\ ~eccPresent)
    ]_vars

\* C19 witness: with the network up, a connect attempt of this pass has
\* failed, the delay is over and the next attempt is about to be made
C19_Witness ==
  /\ pc = "mqtt_connect"
  /\ wifiUp
  /\ tick.mqttConnect
  /\ fails < MaxFails
====
